---- MODULE Spec2Model ----
(***************************************************************************)
(* Model of the Calculator crate: the two tokenizers (eval.rs parse_expr   *)
(* and shunting_yard.rs parse_expression_to_token_list), the shunting-yard *)
(* converter ShuntingYard::to_rpn and the evaluator ShuntingYard::compute. *)
(*                                                                         *)
(* A string is a sequence of one-character strings.  A Vec is a sequence   *)
(* whose element 1 is the Vec's index 0.  i64 is modelled as a two's       *)
(* complement integer of IntBits bits (TLC's own integers are narrower     *)
(* than 64 bits), so that overflow happens on short digit runs.            *)
(***************************************************************************)
EXTENDS Integers, Sequences, FiniteSets, TLC

\* ------------------------------------------------------------------ bounds
\* Longest input string enumerated exhaustively.
MaxLen == 3
\* Most binary operators in an enumerated well-formed expression.
MaxOps == 2
\* Width of the modelled i64.
IntBits == 8

I64Max == 2 ^ (IntBits - 1) - 1
I64Min == 0 - 2 ^ (IntBits - 1)

InI64(x) == I64Min <= x /\ x <= I64Max

\* Two's complement wrap-around (release builds, overflow-checks off).
Wrap(x) == ((x - I64Min) % (2 ^ IntBits)) + I64Min

\* ------------------------------------------------------------- characters
DigitChars == <<"0", "1", "2", "3", "4", "5", "6", "7", "8", "9">>

Digits == {DigitChars[i] : i \in 1..Len(DigitChars)}

DigitValue(c) == (CHOOSE i \in 1..Len(DigitChars) : DigitChars[i] = c) - 1

\* shunting_yard.rs: const OPERATORS
OPERATORS == {"+", "-", "*", "/", "(", ")"}

\* shunting_yard.rs: const INVALID_TOKEN_PATTERNS
INVALID_TOKEN_PATTERNS ==
    { <<"-", "*">>, <<"-", "/">>, <<"-", ")">>,
      <<"+", "*">>, <<"+", "/">>, <<"+", ")">>,
      <<"*", "*">>, <<"*", "/">>, <<"*", ")">>,
      <<"/", "*">>, <<"/", "/">>, <<"/", ")">>,
      <<"(", "*">>, <<"(", "/">>, <<")", "(">> }

TOKEN_FIXABLE_SEQUENCE == <<"-", "(">>

TOKEN_FIX_SEQUENCE == <<"-", "1", "*", "(">>

\* ----------------------------------------------------------------- tokens
Number(n) == [type |-> "Number", n |-> n, op |-> "None"]

Operator(o) == [type |-> "Operator", n |-> 0, op |-> o]

ArithOps == {"Prod", "Div", "Sub", "Add"}

IsBracket(t) == t.type = "Operator" /\ t.op \in {"LeftBracket", "RightBracket"}

\* The derived Ord of enum Operator: the position of the variant.
OrdIndex(o) ==
    CASE o = "LeftBracket" -> 0
      [] o = "RightBracket" -> 1
      [] o = "Prod" -> 2
      [] o = "Div" -> 3
      [] o = "Sub" -> 4
      [] o = "Add" -> 5

\* Operator::le of the derived PartialOrd
OperatorLe(a, b) == OrdIndex(a) <= OrdIndex(b)

\* impl TryFrom<&str> for Operator (a one-character string here)
OperatorTryFrom(c) ==
    CASE c = "*" -> "Prod"
      [] c = "/" -> "Div"
      [] c = "+" -> "Add"
      [] c = "-" -> "Sub"
      [] c = "(" -> "LeftBracket"
      [] c = ")" -> "RightBracket"
      [] OTHER -> "Unknown"

\* ---------------------------------------------------------------- results
\* Outcome of a call: Ok(tokens), Ok(value), Err(kind, payload) or a panic.
OkTokens(t) == [kind |-> "Ok", err |-> "", val |-> 0, toks |-> t, str |-> <<>>]

OkValue(v) == [kind |-> "Ok", err |-> "", val |-> v, toks |-> <<>>, str |-> <<>>]

Err(e, s) == [kind |-> "Err", err |-> e, val |-> 0, toks |-> <<>>, str |-> s]

Panic(why) == [kind |-> "Panic", err |-> why, val |-> 0, toks |-> <<>>, str |-> <<>>]

NotCalled == [kind |-> "None", err |-> "", val |-> 0, toks |-> <<>>, str |-> <<>>]

\* ------------------------------------------------------- str::parse::<i64>
RECURSIVE AccDigits(_, _, _, _)
AccDigits(s, i, acc, neg) ==
    IF i > Len(s) THEN [ok |-> TRUE, val |-> acc, why |-> ""]
    ELSE IF s[i] \notin Digits THEN [ok |-> FALSE, val |-> 0, why |-> "InvalidDigit"]
    ELSE LET m == acc * 10
             a == IF neg THEN m - DigitValue(s[i]) ELSE m + DigitValue(s[i])
         IN IF ~InI64(m) \/ ~InI64(a)
            THEN [ok |-> FALSE, val |-> 0,
                  why |-> IF neg THEN "NegOverflow" ELSE "PosOverflow"]
            ELSE AccDigits(s, i + 1, a, neg)

\* i64::from_str: an optional sign, then at least one digit, checked.
ParseI64(s) ==
    IF Len(s) = 0 THEN [ok |-> FALSE, val |-> 0, why |-> "Empty"]
    ELSE IF s[1] \in {"+", "-"}
         THEN IF Len(s) = 1 THEN [ok |-> FALSE, val |-> 0, why |-> "InvalidDigit"]
              ELSE AccDigits(s, 2, 0, s[1] = "-")
         ELSE AccDigits(s, 1, 0, FALSE)

\* ------------------------------------------------ i64::to_string, join
RECURSIVE NatToString(_)
NatToString(n) ==
    IF n < 10 THEN <<DigitChars[n + 1]>>
    ELSE NatToString(n \div 10) \o <<DigitChars[(n % 10) + 1]>>

I64ToString(n) == IF n < 0 THEN <<"-">> \o NatToString(0 - n) ELSE NatToString(n)

\* impl From<&Operator> for String; the bracket arms are unreachable!().
OperatorToString(o) ==
    CASE o = "Prod" -> <<"*">>
      [] o = "Div" -> <<"/">>
      [] o = "Add" -> <<"+">>
      [] o = "Sub" -> <<"-">>

\* impl From<&Token> for String
TokenToString(t) == IF t.type = "Number" THEN I64ToString(t.n) ELSE OperatorToString(t.op)

RECURSIVE JoinTokens(_)
JoinTokens(q) ==
    IF Len(q) = 0 THEN <<>>
    ELSE IF Len(q) = 1 THEN TokenToString(q[1])
    ELSE TokenToString(q[1]) \o <<",", " ">> \o JoinTokens(Tail(q))

\* ------------------------------------------------------- string helpers
IsWhitespace(c) == c = " "

Reverse(s) == [i \in 1..Len(s) |-> s[Len(s) + 1 - i]]

\* str::contains
Contains(s, pat) ==
    \E i \in 1..(Len(s) + 1 - Len(pat)) : SubSeq(s, i, i + Len(pat) - 1) = pat

\* chars().filter(|c| *c == ch).count()
CountChar(s, ch) == Cardinality({i \in 1..Len(s) : s[i] = ch})

\* str::replace(TOKEN_FIXABLE_SEQUENCE, TOKEN_FIX_SEQUENCE): every
\* non-overlapping match, left to right.
RECURSIVE ReplaceFixable(_)
ReplaceFixable(s) ==
    IF Len(s) < Len(TOKEN_FIXABLE_SEQUENCE) THEN s
    ELSE IF SubSeq(s, 1, Len(TOKEN_FIXABLE_SEQUENCE)) = TOKEN_FIXABLE_SEQUENCE
         THEN TOKEN_FIX_SEQUENCE
              \o ReplaceFixable(SubSeq(s, Len(TOKEN_FIXABLE_SEQUENCE) + 1, Len(s)))
         ELSE <<s[1]>> \o ReplaceFixable(Tail(s))

\* ----------------------------------- shunting_yard.rs: validate_token_list
\* Mutant of validate_token_list: the brackets are not counted.
validate_token_list_patterns_only(e) ==
    ~(\E p \in INVALID_TOKEN_PATTERNS : Contains(e, p))

validate_token_list(e) ==
    IF CountChar(e, "(") # CountChar(e, ")") THEN FALSE
    ELSE ~(\E p \in INVALID_TOKEN_PATTERNS : Contains(e, p))

\* ---------------------- shunting_yard.rs: parse_expression_to_token_list
\* str::split_inclusive(|c| OPERATORS.contains(&c))
RECURSIVE SplitInclusive(_)
SplitInclusive(s) ==
    IF Len(s) = 0 THEN <<>>
    ELSE IF \E i \in 1..Len(s) : s[i] \in OPERATORS
         THEN LET i == CHOOSE k \in 1..Len(s) :
                         /\ s[k] \in OPERATORS
                         /\ \A j \in 1..(k - 1) : s[j] \notin OPERATORS
              IN <<SubSeq(s, 1, i)>> \o SplitInclusive(SubSeq(s, i + 1, Len(s)))
         ELSE <<s>>

\* The first map closure.  v.chars().last().and_then(|c| Some(..)).is_some()
\* is true of every non-empty piece, whatever its last character is, so
\* every piece is split before its last character.
SplitPiece(v) ==
    IF Len(v) > 0
    THEN <<SubSeq(v, 1, Len(v) - 1), SubSeq(v, Len(v), Len(v))>>
    ELSE <<v>>

RECURSIVE Flatten(_)
Flatten(ss) == IF Len(ss) = 0 THEN <<>> ELSE ss[1] \o Flatten(Tail(ss))

NonEmpty(p) == Len(p) > 0

\* split_inclusive .. map .. flatten .. filter
TokenStrList(e) ==
    LET pieces == SplitInclusive(e)
    IN SelectSeq(Flatten([i \in 1..Len(pieces) |-> SplitPiece(pieces[i])]), NonEmpty)

\* Operator::try_from(&str).is_ok_and(..): the string is one operator character
IsOperatorStr(s) == Len(s) = 1 /\ s[1] \in OPERATORS

\* The condition of the second map closure at (1-based) position i of l:
\* third_to_last and second_last are the two elements before l[i], or "".
ShouldFold(l, i) ==
    /\ i >= 3
    /\ IsOperatorStr(l[i - 2])
    /\ OperatorTryFrom(l[i - 2][1]) \in {"Add", "Sub", "LeftBracket", "Div", "Prod"}
    /\ IsOperatorStr(l[i - 1])
    /\ OperatorTryFrom(l[i - 1][1]) \in {"Add", "Sub"}
    /\ ParseI64(l[i]).ok

\* signed_value: the sign string followed by the digits
SignedValue(sign, v) == sign \o v

\* indexes_to_remove, in the order they are pushed (1-based positions)
IndexesToRemove(l) ==
    LET hit(i) == ShouldFold(l, i)
        idx == SelectSeq([i \in 1..Len(l) |-> i], hit)
    IN [k \in 1..Len(idx) |-> idx[k] - 1]

\* Vec::remove(i)
VecRemove(v, i) == SubSeq(v, 1, i - 1) \o SubSeq(v, i + 1, Len(v))

RECURSIVE RemoveEach(_, _)
RemoveEach(v, idx) ==
    IF Len(idx) = 0 THEN v ELSE RemoveEach(VecRemove(v, idx[1]), Tail(idx))

\* The second map closure, then indexes_to_remove.reverse() and the removals
FoldSigns(l) ==
    LET mapped == [i \in 1..Len(l) |->
                     IF ShouldFold(l, i) THEN SignedValue(l[i - 1], l[i]) ELSE l[i]]
    IN RemoveEach(mapped, Reverse(IndexesToRemove(l)))

\* The last map: an operator string becomes an Operator token, anything else
\* is parsed as i64; collect() returns the first error.
RECURSIVE ToTokens(_, _)
ToTokens(strs, acc) ==
    IF Len(strs) = 0 THEN OkTokens(acc)
    ELSE LET s == strs[1]
         IN IF IsOperatorStr(s)
            THEN ToTokens(Tail(strs), Append(acc, Operator(OperatorTryFrom(s[1]))))
            ELSE LET p == ParseI64(s)
                 IN IF p.ok THEN ToTokens(Tail(strs), Append(acc, Number(p.val)))
                    ELSE Err("ParseInt", <<p.why>>)

\* expression.retain(|c| !c.is_whitespace()), then the "-(" fix
Normalise(expr) ==
    LET notWs(c) == ~IsWhitespace(c)
    IN ReplaceFixable(SelectSeq(expr, notWs))

parse_expression_to_token_list(expr) ==
    LET expression == Normalise(expr)
    IN IF ~validate_token_list(expression) THEN Err("InvalidExpression", expr)
       ELSE ToTokens(FoldSigns(TokenStrList(expression)), <<>>)

\* ------------------------------------------------- eval.rs: get_number
\* number = number * 10 + digit on i64: with overflow checks (debug builds)
\* an overflow panics, without them (release builds) it wraps.
RECURSIVE GetNumberLoop(_, _, _, _)
GetNumberLoop(s, i, number, checks) ==
    IF i <= Len(s) /\ s[i] \in Digits
    THEN LET m == number * 10
             a == Wrap(m) + DigitValue(s[i])
         IN IF checks /\ (~InI64(m) \/ ~InI64(a))
            THEN [panic |-> TRUE, val |-> 0, next |-> i]
            ELSE GetNumberLoop(s, i + 1, Wrap(a), checks)
    ELSE [panic |-> FALSE, val |-> number, next |-> i]

\* get_number(c, iter): c = s[i] is a digit, already consumed by the caller
get_number(s, i, checks) == GetNumberLoop(s, i + 1, DigitValue(s[i]), checks)

\* --------------------------------------------------- eval.rs: parse_expr
\* last_token is "None" or the operator of Some(Token::Operator(..)).
\* The '+' arm when last_token is Some(last): the operator pushed back.
SignAfterPlus(last) == IF last = "Sub" THEN "Sub" ELSE "Add"

\* The '-' arm when last_token is Some(last): both branches push Add.
SignAfterMinus(last) == IF last = "Sub" THEN "Add" ELSE "Add"

\* The check of the ')', '/' and '*' arms on last_token
AfterArithmetic(last) == last \in {"Add", "Div", "Prod", "Sub"}

\* result.pop()
VecPop(v) == IF Len(v) = 0 THEN v ELSE SubSeq(v, 1, Len(v) - 1)

RECURSIVE ParseExprFrom(_, _, _, _, _)
ParseExprFrom(s, i, result, last, checks) ==
    IF i > Len(s) THEN OkTokens(result)
    ELSE LET c == s[i]
         IN CASE c \in Digits ->
                   LET g == get_number(s, i, checks)
                   IN IF g.panic THEN Panic("attempt to multiply or add with overflow")
                      ELSE ParseExprFrom(s, g.next, Append(result, Number(g.val)),
                                         "None", checks)
              [] c = "(" ->
                   ParseExprFrom(s, i + 1, Append(result, Operator("LeftBracket")),
                                 "LeftBracket", checks)
              [] c = ")" ->
                   IF last # "None" /\ AfterArithmetic(last)
                   THEN Err("InvalidSyntax", <<>>)
                   ELSE ParseExprFrom(s, i + 1, Append(result, Operator("RightBracket")),
                                      "RightBracket", checks)
              [] c = "+" ->
                   IF last # "None"
                   THEN ParseExprFrom(s, i + 1,
                                      Append(VecPop(result), Operator(SignAfterPlus(last))),
                                      SignAfterPlus(last), checks)
                   ELSE ParseExprFrom(s, i + 1, Append(result, Operator("Add")),
                                      "Add", checks)
              [] c = "-" ->
                   IF last # "None"
                   THEN ParseExprFrom(s, i + 1,
                                      Append(VecPop(result), Operator(SignAfterMinus(last))),
                                      SignAfterMinus(last), checks)
                   ELSE ParseExprFrom(s, i + 1, Append(result, Operator("Sub")),
                                      "Sub", checks)
              [] c = "/" ->
                   IF last # "None" /\ AfterArithmetic(last)
                   THEN Err("InvalidSyntax", <<>>)
                   ELSE ParseExprFrom(s, i + 1, Append(result, Operator("Div")),
                                      "Div", checks)
              [] c = "*" ->
                   IF last # "None" /\ AfterArithmetic(last)
                   THEN Err("InvalidSyntax", <<>>)
                   ELSE ParseExprFrom(s, i + 1, Append(result, Operator("Prod")),
                                      "Prod", checks)
              [] c = " " ->
                   ParseExprFrom(s, i + 1, result, "None", checks)
              [] OTHER ->
                   Err("InvalidExpression", <<"Unknown character ", c>>)

parse_expr(s, checks) == ParseExprFrom(s, 1, <<>>, "None", checks)

\* --------------------------------------- shunting_yard.rs: Operator::execute
\* i64 division truncates toward zero.
TruncDiv(a, b) ==
    LET q == (IF a < 0 THEN 0 - a ELSE a) \div (IF b < 0 THEN 0 - b ELSE b)
    IN IF (a < 0) = (b < 0) THEN q ELSE 0 - q

\* +, - and * panic on overflow with overflow checks and wrap without them.
Checked(x, checks) ==
    IF InI64(x) THEN [panic |-> FALSE, val |-> x, why |-> ""]
    ELSE IF checks THEN [panic |-> TRUE, val |-> 0, why |-> "arithmetic overflow"]
    ELSE [panic |-> FALSE, val |-> Wrap(x), why |-> ""]

\* v1 / v2 panics on a zero divisor and on i64::MIN / -1 in every build.
DivOutcome(v1, v2) ==
    IF v2 = 0 THEN [panic |-> TRUE, val |-> 0, why |-> "attempt to divide by zero"]
    ELSE IF v1 = I64Min /\ v2 = 0 - 1
         THEN [panic |-> TRUE, val |-> 0, why |-> "attempt to divide with overflow"]
         ELSE [panic |-> FALSE, val |-> TruncDiv(v1, v2), why |-> ""]

execute(operator, v1, v2, checks) ==
    CASE operator = "Prod" -> Checked(v1 * v2, checks)
      [] operator = "Div" -> DivOutcome(v1, v2)
      [] operator = "Add" -> Checked(v1 + v2, checks)
      [] operator = "Sub" -> Checked(v1 - v2, checks)
      [] OTHER -> [panic |-> TRUE, val |-> 0,
                   why |-> "unreachable: Hit brackets in operation execution"]

\* ------------------------------------------------------------------ state
VARIABLES
    call,             \* the entry point this run exercises
    expr,             \* the input string
    ast,              \* the expression tree expr was written from, or <<>>
    overflow_checks,  \* the build: TRUE with overflow checks (debug profile)
    pc,               \* where the run is
    tokens,           \* ShuntingYard.tokens
    pos,              \* to_rpn's token_iterator: the next token's position
    operator_stack,   \* ShuntingYard.operator_stack (element 1 is the top)
    output_queue,     \* ShuntingYard.output_queue (element 1 is index 0)
    stack,            \* compute's operand stack (element 1 is the bottom)
    rpn_str,          \* compute's rpn_str
    result,           \* what the call returned, or NotCalled
    worker,           \* main.rs business-logic thread: where it is
    signal_thread,    \* main.rs signal thread: where it is
    termination,      \* the messages in the channel termination_tx -> termination_rx
    main_thread,      \* main: blocked in termination_rx.recv(), or returned
    sigint,           \* a SIGINT has been delivered to the process
    stdout            \* the last line the worker printed

\* The threads of main.rs; a run of one call alone leaves them "off".
threads == <<worker, signal_thread, termination, main_thread, sigint, stdout>>

vars == <<call, expr, ast, overflow_checks, pc, tokens, pos, operator_stack,
          output_queue, stack, rpn_str, result, worker, signal_thread,
          termination, main_thread, sigint, stdout>>

\* ------------------------------------------------- eval.rs entry point
\* parse_expr(s)
ParseExpr ==
    /\ call = "parse_expr"
    /\ pc = "start"
    /\ result' = parse_expr(expr, overflow_checks)
    /\ pc' = "done"
    /\ UNCHANGED threads
    /\ UNCHANGED <<call, expr, ast, overflow_checks, tokens, pos, operator_stack,
                   output_queue, stack, rpn_str>>

\* ------------------------------------------- mod.rs: estimate_expression
\* ShuntingYard::new(expr)?: an error of the tokenizer is returned at once.
New ==
    /\ call = "estimate_expression"
    /\ pc = "start"
    /\ LET r == parse_expression_to_token_list(expr)
       IN IF r.kind = "Ok"
          THEN /\ tokens' = r.toks
               /\ pc' = "to_rpn"
               /\ UNCHANGED result
          ELSE /\ result' = r
               /\ pc' = "done"
               /\ UNCHANGED tokens
    /\ operator_stack' = <<>>
    /\ output_queue' = <<>>
    /\ pos' = 1
    /\ UNCHANGED threads
    /\ UNCHANGED <<call, expr, ast, overflow_checks, stack, rpn_str>>

\* ---------------------------------------------------- ShuntingYard::to_rpn
\* Mutant of InsertFront: the element is pushed at the back.
InsertBack(v, x) == Append(v, x)

\* Vec::insert(0, x)
InsertFront(v, x) == <<x>> \o v

\* The loop of the RightBracket arm: pop to the output queue while the stack
\* has a top and the top is not a LeftBracket.
RECURSIVE PopToLeftBracket(_, _)
PopToLeftBracket(st, q) ==
    IF Len(st) > 0 /\ st[1] # "LeftBracket"
    THEN PopToLeftBracket(Tail(st), InsertFront(q, Operator(st[1])))
    ELSE [st |-> st, q |-> q]

\* The condition of the operator arm's loop on the stack top st
ShouldPop(st, operator) == st # "LeftBracket" /\ OperatorLe(st, operator)

RECURSIVE PopWhileLe(_, _, _)
PopWhileLe(st, q, operator) ==
    IF Len(st) > 0 /\ ShouldPop(st[1], operator)
    THEN PopWhileLe(Tail(st), InsertFront(q, Operator(st[1])), operator)
    ELSE [st |-> st, q |-> q]

\* The final loop: each operator of the stack, from index 0 on, is inserted at
\* the front of the output queue; the stack itself is only iterated.
RECURSIVE DrainStack(_, _)
DrainStack(st, q) ==
    IF Len(st) = 0 THEN q
    ELSE DrainStack(Tail(st), InsertFront(q, Operator(st[1])))

ToRpnNumber ==
    /\ pc = "to_rpn"
    /\ pos <= Len(tokens)
    /\ tokens[pos].type = "Number"
    /\ output_queue' = InsertFront(output_queue, Number(tokens[pos].n))
    /\ pos' = pos + 1
    /\ UNCHANGED threads
    /\ UNCHANGED <<call, expr, ast, overflow_checks, pc, tokens, operator_stack,
                   stack, rpn_str, result>>

ToRpnLeftBracket ==
    /\ pc = "to_rpn"
    /\ pos <= Len(tokens)
    /\ tokens[pos] = Operator("LeftBracket")
    /\ operator_stack' = InsertFront(operator_stack, "LeftBracket")
    /\ pos' = pos + 1
    /\ UNCHANGED threads
    /\ UNCHANGED <<call, expr, ast, overflow_checks, pc, tokens, output_queue,
                   stack, rpn_str, result>>

\* After the loop, operator_stack.remove(0) panics on an empty stack.
ToRpnRightBracket ==
    /\ pc = "to_rpn"
    /\ pos <= Len(tokens)
    /\ tokens[pos] = Operator("RightBracket")
    /\ LET p == PopToLeftBracket(operator_stack, output_queue)
       IN IF Len(p.st) = 0
          THEN /\ result' = Panic("removal index (is 0) should be < len (is 0)")
               /\ pc' = "done"
               /\ operator_stack' = p.st
               /\ output_queue' = p.q
               /\ UNCHANGED pos
          ELSE /\ operator_stack' = Tail(p.st)
               /\ output_queue' = p.q
               /\ pos' = pos + 1
               /\ UNCHANGED <<pc, result>>
    /\ UNCHANGED threads
    /\ UNCHANGED <<call, expr, ast, overflow_checks, tokens, stack, rpn_str>>

ToRpnOperator ==
    /\ pc = "to_rpn"
    /\ pos <= Len(tokens)
    /\ tokens[pos].type = "Operator"
    /\ tokens[pos].op \in ArithOps
    /\ LET p == PopWhileLe(operator_stack, output_queue, tokens[pos].op)
       IN /\ operator_stack' = InsertFront(p.st, tokens[pos].op)
          /\ output_queue' = p.q
    /\ pos' = pos + 1
    /\ UNCHANGED threads
    /\ UNCHANGED <<call, expr, ast, overflow_checks, pc, tokens, stack, rpn_str,
                   result>>

ToRpnDrain ==
    /\ pc = "to_rpn"
    /\ pos > Len(tokens)
    /\ output_queue' = DrainStack(operator_stack, output_queue)
    /\ pc' = "compute"
    /\ UNCHANGED threads
    /\ UNCHANGED <<call, expr, ast, overflow_checks, tokens, pos, operator_stack,
                   stack, rpn_str, result>>

\* --------------------------------------------------- ShuntingYard::compute
\* rpn_str: every token of the queue is converted to a String first; the
\* conversion of a bracket is unreachable!().
ComputeStart ==
    /\ pc = "compute"
    /\ stack' = <<>>
    /\ IF \E i \in 1..Len(output_queue) : IsBracket(output_queue[i])
       THEN /\ result' = Panic("unreachable: Hit brackets in RPN stringify")
            /\ pc' = "done"
            /\ UNCHANGED rpn_str
       ELSE /\ rpn_str' = JoinTokens(output_queue)
            /\ pc' = "compute_loop"
            /\ UNCHANGED result
    /\ UNCHANGED threads
    /\ UNCHANGED <<call, expr, ast, overflow_checks, tokens, pos, operator_stack,
                   output_queue>>

\* output_queue.pop() yields the last element.
ComputeNumber ==
    /\ pc = "compute_loop"
    /\ Len(output_queue) > 0
    /\ output_queue[Len(output_queue)].type = "Number"
    /\ stack' = Append(stack, output_queue[Len(output_queue)].n)
    /\ output_queue' = VecPop(output_queue)
    /\ UNCHANGED threads
    /\ UNCHANGED <<call, expr, ast, overflow_checks, pc, tokens, pos,
                   operator_stack, rpn_str, result>>

\* Mutant of AfterTwoPops: the operands are popped only when two are there.
AfterTwoPopsIfBoth(s) == IF Len(s) >= 2 THEN VecPop(VecPop(s)) ELSE s

\* The operand stack after v2_opt = stack.pop() and v1_opt = stack.pop()
AfterTwoPops(s) == VecPop(VecPop(s))

ComputeOperator ==
    /\ pc = "compute_loop"
    /\ Len(output_queue) > 0
    /\ output_queue[Len(output_queue)].type = "Operator"
    /\ output_queue' = VecPop(output_queue)
    /\ IF Len(stack) >= 2
       THEN LET v2 == stack[Len(stack)]
                v1 == stack[Len(stack) - 1]
                e == execute(output_queue[Len(output_queue)].op, v1, v2,
                             overflow_checks)
            IN IF e.panic
               THEN /\ result' = Panic(e.why)
                    /\ pc' = "done"
                    /\ stack' = AfterTwoPops(stack)
               ELSE /\ stack' = Append(AfterTwoPops(stack), e.val)
                    /\ UNCHANGED <<pc, result>>
       ELSE /\ stack' = AfterTwoPops(stack)
            /\ pc' = "compute_break"
            /\ UNCHANGED result
    /\ UNCHANGED threads
    /\ UNCHANGED <<call, expr, ast, overflow_checks, tokens, pos, operator_stack,
                   rpn_str>>

\* match stack.first()
ComputeResult(s, rpn) == IF Len(s) > 0 THEN OkValue(s[1]) ELSE Err("InvalidRpn", rpn)

\* The loop has ended: the queue is empty, or an operator broke out of it.
ComputeFinish ==
    /\ \/ pc = "compute_loop" /\ Len(output_queue) = 0
       \/ pc = "compute_break"
    /\ result' = ComputeResult(stack, rpn_str)
    /\ pc' = "done"
    /\ UNCHANGED threads
    /\ UNCHANGED <<call, expr, ast, overflow_checks, tokens, pos, operator_stack,
                   output_queue, stack, rpn_str>>

\* ----------------------------------------------------------------- inputs
\* mod.rs EASY_EXPR
ExEasy ==
    <<"4", "+", "2">>

\* mod.rs MEDIUM_EXPR
ExMedium ==
    <<"3", " ", " ", " ", " ", "*", " ", "6", " ", "-", " ", "7", " ", " ", "+", " ", "2">>

\* mod.rs HARD_EXPR
ExHard ==
    <<"(", "3", "+", "4", ")", " ", "+", " ", " ", "7", " ", "*", "2", " ", "-", "1", "-", "9">>

\* mod.rs HARDER_EXPR
ExHarder ==
    <<"(", "8", " ", "-", "1", " ", "+", "3", ")", " ", " ", "*", "6", " ", "-", "(", "(", "3", "+", "7", ")", "*", "2", " ", " ", ")">>

\* shunting_yard.rs tests
ExSignedNegative ==
    <<"4", " ", "+", " ", "1", "8", "/", "(", "9", "-", "-", "3", ")">>

ExSignedPositive ==
    <<"4", " ", "+", " ", "1", "8", "/", "(", "9", "-", "+", "3", ")">>

ExInvalidProd ==
    <<"4", " ", "+", " ", "1", "8", "/", "(", "9", "-", "*", "3", ")">>

ExInvalidDiv ==
    <<"4", " ", "+", " ", "1", "8", "/", "(", "9", "-", "/", "3", ")">>

\* further inputs
ExCrossedBrackets ==
    <<"3", ")", "+", "(", "4">>

ExDivByZero ==
    <<"4", "/", "0">>

ExDivByZeroBracket ==
    <<"4", "/", "(", "2", "-", "2", ")">>

ExJuxtaposed ==
    <<"3", "(", "4", ")">>

ExDivThenProd ==
    <<"8", "/", "2", "*", "3">>

ExUnknownChar ==
    <<"1", "x", "+", "2">>

ExOverflowThenPair ==
    <<"9", "9", "9", "+", "*", "1">>

ExTwoDigitTail ==
    <<"1", "2", "+", "3", "4">>

ExSpacedSigns ==
    <<"1", "-", " ", "-", "3">>

Examples ==
    {ExEasy,
     ExMedium,
     ExHard,
     ExHarder,
     ExSignedNegative,
     ExSignedPositive,
     ExInvalidProd,
     ExInvalidDiv,
     ExCrossedBrackets,
     ExDivByZero,
     ExDivByZeroBracket,
     ExJuxtaposed,
     ExDivThenProd,
     ExUnknownChar,
     ExOverflowThenPair,
     ExTwoDigitTail,
     ExSpacedSigns}

\* The token list of test_rpn and test_result_computation: 4 + 18 / (9 - 3)
TokensOfTestRpn ==
    <<Number(4), Operator("Add"), Number(18), Operator("Div"),
      Operator("LeftBracket"), Number(9), Operator("Sub"), Number(3),
      Operator("RightBracket")>>

\* Token lists a ShuntingYard value is built from directly, as the tests do
DirectTokens ==
    {TokensOfTestRpn,
     <<Operator("LeftBracket"), Number(3)>>,
     <<Number(3), Operator("RightBracket")>>,
     <<Number(3), Operator("Add"), Number(4), Operator("RightBracket")>>,
     <<Number(3), Operator("Add"), Operator("LeftBracket"), Number(4)>>}

\* The characters of the exhaustively enumerated inputs
Chars == {"1", "9", "+", "-", "*", "/", "(", ")", " "}

AllStrings(n) == UNION {[1..k -> Chars] : k \in 0..n}

\* Inputs a op s b, (s b) and (a op s b): one sign s after an operator or '('
Operands == {<<"3">>, <<"9">>, <<"1", "2">>}

SignFoldInputs ==
    LET core == {a \o <<o, s>> \o b :
                    a \in Operands, b \in Operands,
                    o \in {"+", "-", "*", "/"}, s \in {"+", "-"}}
    IN core
       \cup {<<"(">> \o c \o <<")">> : c \in core}
       \cup {<<"(", s>> \o b \o <<")">> : s \in {"+", "-"}, b \in Operands}

\* ------------------------------------------------ well-formed expressions
\* An expression tree: a leaf <<"Num", n>> or <<operator, left, right>>.
Leaf(n) == <<"Num", n>>

Bin(o, l, r) == <<o, l, r>>

IsLeaf(a) == a[1] = "Num"

LeafValues == {2, 3, 12}

RECURSIVE TreesWithOps(_)
TreesWithOps(k) ==
    IF k = 0 THEN {Leaf(n) : n \in LeafValues}
    ELSE UNION {{Bin(o, l, r) : o \in ArithOps, l \in TreesWithOps(j),
                                r \in TreesWithOps(k - 1 - j)} : j \in 0..(k - 1)}

Asts == UNION {TreesWithOps(k) : k \in 0..MaxOps}

\* '*' and '/' bind tighter than '+' and '-'.
BindsTighter(o) == o \in {"Prod", "Div"}

Symbol(o, spaced) ==
    IF spaced THEN <<" ">> \o OperatorToString(o) \o <<" ">> ELSE OperatorToString(o)

\* The usual infix notation of a tree: a left operand is bracketed when its
\* operator binds less tightly, a right operand when it does not bind tighter.
RECURSIVE Render(_, _)
Render(a, spaced) ==
    IF IsLeaf(a) THEN NatToString(a[2])
    ELSE LET l == a[2]
             r == a[3]
             ls == IF ~IsLeaf(l) /\ BindsTighter(a[1]) /\ ~BindsTighter(l[1])
                   THEN <<"(">> \o Render(l, spaced) \o <<")">>
                   ELSE Render(l, spaced)
             rs == IF ~IsLeaf(r) /\ (BindsTighter(a[1]) \/ ~BindsTighter(r[1]))
                   THEN <<"(">> \o Render(r, spaced) \o <<")">>
                   ELSE Render(r, spaced)
         IN ls \o Symbol(a[1], spaced) \o rs

\* The value of a tree in integer arithmetic with truncating division:
\* def is FALSE when a divisor is zero or a value leaves the i64 range.
RECURSIVE Value(_)
Value(a) ==
    IF IsLeaf(a) THEN [def |-> InI64(a[2]), val |-> a[2]]
    ELSE LET x == Value(a[2])
             y == Value(a[3])
         IN IF ~x.def \/ ~y.def \/ (a[1] = "Div" /\ y.val = 0)
            THEN [def |-> FALSE, val |-> 0]
            ELSE LET v == CASE a[1] = "Prod" -> x.val * y.val
                            [] a[1] = "Div" -> TruncDiv(x.val, y.val)
                            [] a[1] = "Add" -> x.val + y.val
                            [] a[1] = "Sub" -> x.val - y.val
                 IN [def |-> InI64(v), val |-> v]

\* ------------------------------------------------------- initial states
\* A call of parse_expr(e) or estimate_expression(e) is about to be made.
Start(c, e, a, checks) ==
    /\ call = c
    /\ expr = e
    /\ ast = a
    /\ overflow_checks = checks
    /\ pc = "start"
    /\ tokens = <<>>
    /\ pos = 1
    /\ operator_stack = <<>>
    /\ output_queue = <<>>
    /\ stack = <<>>
    /\ rpn_str = <<>>
    /\ result = NotCalled

\* A ShuntingYard { operator_stack: vec![], output_queue: vec![], tokens: t }
\* on which to_rpn().compute() is about to be called.
StartDirect(t, checks) ==
    /\ call = "to_rpn"
    /\ expr = <<>>
    /\ ast = <<>>
    /\ overflow_checks = checks
    /\ pc = "to_rpn"
    /\ tokens = t
    /\ pos = 1
    /\ operator_stack = <<>>
    /\ output_queue = <<>>
    /\ stack = <<>>
    /\ rpn_str = <<>>
    /\ result = NotCalled

EntryPoints == {"parse_expr", "estimate_expression"}

\* One call is run on its own: no thread of main.rs exists.
NoThreads ==
    /\ worker = "off"
    /\ signal_thread = "off"
    /\ termination = <<>>
    /\ main_thread = "off"
    /\ sigint = FALSE
    /\ stdout = ""

Init ==
    /\ NoThreads
    /\ \/ \E e \in AllStrings(MaxLen) \cup Examples \cup SignFoldInputs,
             c \in EntryPoints, checks \in BOOLEAN : Start(c, e, <<>>, checks)
       \/ \E t \in DirectTokens, checks \in BOOLEAN : StartDirect(t, checks)

\* Well-formed expressions, written with and without spaces
InitArith ==
    /\ NoThreads
    /\ \/ \E a \in Asts, spaced \in BOOLEAN, checks \in BOOLEAN :
             Start("estimate_expression", Render(a, spaced), a, checks)
       \/ \E e \in Examples, c \in EntryPoints, checks \in BOOLEAN :
             Start(c, e, <<>>, checks)
       \/ \E t \in DirectTokens, checks \in BOOLEAN : StartDirect(t, checks)


Next ==
    \/ ParseExpr
    \/ New
    \/ ToRpnNumber
    \/ ToRpnLeftBracket
    \/ ToRpnRightBracket
    \/ ToRpnOperator
    \/ ToRpnDrain
    \/ ComputeStart
    \/ ComputeNumber
    \/ ComputeOperator
    \/ ComputeFinish

Spec == Init /\ [][Next]_vars

SpecArith == InitArith /\ [][Next]_vars

\* ------------------------------------------------------------- main.rs
\* The variables of one call of estimate_expression
callVars == <<call, expr, ast, overflow_checks, pc, tokens, pos, operator_stack,
              output_queue, stack, rpn_str, result>>

\* str::trim
RECURSIVE TrimStart(_)
TrimStart(s) ==
    IF Len(s) > 0 /\ IsWhitespace(s[1]) THEN TrimStart(Tail(s)) ELSE s

Trim(s) == Reverse(TrimStart(Reverse(TrimStart(s))))

\* A line with spaces around it, and the empty line read at end of input
ExPadded ==
    <<" ", "4", "+", "2", " ">>

ExEndOfInput ==
    <<>>

\* The lines standard input may hold
Lines == Examples \cup {ExPadded, ExEndOfInput}

\* The process has not exited: main is still blocked in termination_rx.recv().
Running == main_thread = "recv"

\* Signals::new has returned Ok: main has made the channel and spawned both
\* threads, and is about to block in termination_rx.recv().
InitMain ==
    /\ worker = "read_line"
    /\ signal_thread = "forever"
    /\ termination = <<>>
    /\ main_thread = "recv"
    /\ sigint = FALSE
    /\ stdout = ""
    /\ call = "estimate_expression"
    /\ expr = <<>>
    /\ ast = <<>>
    /\ overflow_checks \in BOOLEAN
    /\ pc = "idle"
    /\ tokens = <<>>
    /\ pos = 1
    /\ operator_stack = <<>>
    /\ output_queue = <<>>
    /\ stack = <<>>
    /\ rpn_str = <<>>
    /\ result = NotCalled

\* The worker prints its prompt, read_line returns Ok and
\* estimate_expression(buf.trim()) is entered.
WorkerReadLine ==
    /\ Running
    /\ worker = "read_line"
    /\ \E buf \in Lines : expr' = Trim(buf)
    /\ stdout' = "Waiting for user input:"
    /\ worker' = "estimate"
    /\ pc' = "start"
    /\ tokens' = <<>>
    /\ pos' = 1
    /\ operator_stack' = <<>>
    /\ output_queue' = <<>>
    /\ stack' = <<>>
    /\ rpn_str' = <<>>
    /\ result' = NotCalled
    /\ UNCHANGED <<call, ast, overflow_checks, signal_thread, termination,
                   main_thread, sigint>>

\* read_line returns Err: the error is logged and the loop goes round.
WorkerReadError ==
    /\ Running
    /\ worker = "read_line"
    /\ stdout' = "Waiting for user input:"
    /\ UNCHANGED <<worker, signal_thread, termination, main_thread, sigint>>
    /\ UNCHANGED callVars

\* The steps of estimate_expression, run by the worker
WorkerEstimate ==
    /\ Running
    /\ worker = "estimate"
    /\ \/ New
       \/ ToRpnNumber
       \/ ToRpnLeftBracket
       \/ ToRpnRightBracket
       \/ ToRpnOperator
       \/ ToRpnDrain
       \/ ComputeStart
       \/ ComputeNumber
       \/ ComputeOperator
       \/ ComputeFinish

\* estimate_expression returned Ok or Err: the worker prints and loops.
WorkerPrint ==
    /\ Running
    /\ worker = "estimate"
    /\ pc = "done"
    /\ result.kind # "Panic"
    /\ stdout' = IF result.kind = "Ok"
                 THEN "Result of expression"
                 ELSE "Cannot estimate expression due to error"
    /\ worker' = "read_line"
    /\ UNCHANGED <<signal_thread, termination, main_thread, sigint>>
    /\ UNCHANGED callVars

\* estimate_expression panicked: nothing in the closure catches the unwind,
\* so the worker thread ends; the other threads go on.
WorkerPanic ==
    /\ Running
    /\ worker = "estimate"
    /\ pc = "done"
    /\ result.kind = "Panic"
    /\ worker' = "panicked"
    /\ UNCHANGED <<signal_thread, termination, main_thread, sigint, stdout>>
    /\ UNCHANGED callVars

\* A SIGINT is delivered to the process.
Sigint ==
    /\ Running
    /\ ~sigint
    /\ sigint' = TRUE
    /\ UNCHANGED <<worker, signal_thread, termination, main_thread, stdout>>
    /\ UNCHANGED callVars

\* termination_tx.send(())
Send(ch) == Append(ch, "()")

\* signals.forever() yields the signal: the thread sends () and returns.
SignalThread ==
    /\ Running
    /\ signal_thread = "forever"
    /\ sigint
    /\ termination' = Send(termination)
    /\ signal_thread' = "returned"
    /\ UNCHANGED <<worker, main_thread, sigint, stdout>>
    /\ UNCHANGED callVars

\* Mutant of RecvReady: recv returns only while the worker thread is alive.
RecvReadyWhileWorkerLives ==
    /\ worker # "panicked"
    /\ \/ Len(termination) > 0
       \/ signal_thread = "returned"

\* termination_rx.recv() returns: a message is there (Ok), or the sender has
\* been dropped (Err).
RecvReady ==
    \/ Len(termination) > 0
    \/ signal_thread = "returned"

\* Both arms of the match on recv() return Ok(()): the process exits.
MainRecv ==
    /\ main_thread = "recv"
    /\ RecvReady
    /\ termination' = IF Len(termination) > 0 THEN Tail(termination) ELSE termination
    /\ main_thread' = "returned"
    /\ UNCHANGED <<worker, signal_thread, sigint, stdout>>
    /\ UNCHANGED callVars

NextMain ==
    \/ WorkerReadLine
    \/ WorkerReadError
    \/ WorkerEstimate
    \/ WorkerPrint
    \/ WorkerPanic
    \/ Sigint
    \/ SignalThread
    \/ MainRecv

\* The signal thread and main are scheduled whenever they can run.
SpecMain ==
    InitMain /\ [][NextMain]_vars /\ WF_vars(SignalThread) /\ WF_vars(MainRecv)

\* ------------------------------------------------------------------ claims
Estimating == call = "estimate_expression"

Tokenizing == call = "parse_expr"

\* The tokenizer of this run returned an error (and nothing was converted).
TokenizerFailed ==
    /\ pc = "done"
    /\ result.kind = "Err"
    /\ result.err \in {"InvalidSyntax", "InvalidExpression", "NumberParse", "ParseInt"}

\* C1: a well-formed expression over non-negative integers, + - * / and
\* balanced brackets evaluates to its value under the usual precedence and
\* left associativity (the value being defined and within the integer range).
C1_WellFormedEvaluatesCorrectly ==
    (Estimating /\ pc = "done" /\ ast # <<>> /\ Value(ast).def)
        => result = OkValue(Value(ast).val)

\* The value the digits of an operand denote
OperandValue(d) == ParseI64(d).val

Signed(s, d) == IF s = "-" THEN 0 - OperandValue(d) ELSE OperandValue(d)

\* C2: for an input a op s b (op a binary operator, s one sign, a and b digit
\* runs) the tokenizer emits Number(a), op, and one Number carrying s and b;
\* hence a--b evaluates to a+b and a-+b to a-b.
C2_SignFoldedIntoNumber ==
    \A a \in Operands, b \in Operands, o \in {"+", "-", "*", "/"}, s \in {"+", "-"} :
        (Estimating /\ expr = a \o <<o, s>> \o b /\ pc # "start")
            => /\ tokens = <<Number(OperandValue(a)), Operator(OperatorTryFrom(o)),
                             Number(Signed(s, b))>>
               /\ (pc = "done" /\ o = "-")
                      => result = OkValue(OperandValue(a) - Signed(s, b))

\* A digit followed by two or more sign characters and nothing else
IsSignRun(e) ==
    /\ Len(e) >= 3
    /\ e[1] \in Digits
    /\ \A i \in 2..Len(e) : e[i] \in {"+", "-"}

OddMinus(e) == Cardinality({i \in 1..Len(e) : e[i] = "-"}) % 2 = 1

\* C3: parse_expr turns a run of two or more signs after a number into one
\* operator token: Sub when the run holds an odd number of '-', else Add.
C3_SignRunCollapses ==
    (Tokenizing /\ pc = "done" /\ IsSignRun(expr))
        => result = OkTokens(<<Number(DigitValue(expr[1])),
                               Operator(IF OddMinus(expr) THEN "Sub" ELSE "Add")>>)

\* An arithmetic operator directly followed by '*', '/' or ')'
HasBadPair(e) ==
    \E i \in 1..(Len(e) - 1) :
        e[i] \in {"+", "-", "*", "/"} /\ e[i + 1] \in {"*", "/", ")"}

KnownChars == Digits \cup OPERATORS \cup {" "}

\* C4: an input with an arithmetic operator directly followed by '*', '/' or
\* ')' is rejected: parse_expression_to_token_list returns InvalidExpression
\* with the original string, parse_expr returns InvalidSyntax (or reports an
\* unknown character standing in the input); no number is produced.
C4_BadPairRejected ==
    (pc = "done" /\ HasBadPair(expr))
        => /\ Estimating => result = Err("InvalidExpression", expr)
           /\ Tokenizing =>
                 \/ result = Err("InvalidSyntax", <<>>)
                 \/ /\ \E i \in 1..Len(expr) : expr[i] \notin KnownChars
                    /\ result.kind = "Err"
                    /\ result.err = "InvalidExpression"

\* compute is about to apply Div to a right-hand operand 0.
DividesByZero ==
    /\ pc = "compute_loop"
    /\ Len(output_queue) > 0
    /\ output_queue[Len(output_queue)] = Operator("Div")
    /\ Len(stack) >= 2
    /\ stack[Len(stack)] = 0

\* C5: applying Div to a zero right-hand operand makes the call return an
\* error value; it neither panics nor returns a number.
C5_DivByZeroIsTypedError ==
    [][DividesByZero => (pc' = "done" /\ result'.kind = "Err")]_vars

\* compute is about to reach an operator with fewer than two operands.
Underflows ==
    /\ pc = "compute_loop"
    /\ Len(output_queue) > 0
    /\ output_queue[Len(output_queue)].type = "Operator"
    /\ Len(stack) < 2

\* C6: compute returns Err(InvalidRpn) when the RPN sequence is empty, and
\* when an operator finds fewer than two operands: it then stops at that
\* operator, the rest of the queue is left unprocessed, and the call returns
\* Err(InvalidRpn), never a number.
C6_UnderflowIsInvalidRpn ==
    /\ [][Underflows => (pc' = "compute_break"
                           /\ output_queue' = VecPop(output_queue))]_vars
    /\ [][pc = "compute_break"
             => (pc' = "done" /\ result' = Err("InvalidRpn", rpn_str)
                   /\ output_queue' = output_queue)]_vars
    /\ [][(pc = "compute" /\ output_queue = <<>>) => pc' = "compute_loop"]_vars
    /\ [][(pc = "compute_loop" /\ output_queue = <<>> /\ rpn_str = <<>>)
             => (pc' = "done" /\ result' = Err("InvalidRpn", <<>>))]_vars
    /\ [](Estimating /\ pc = "done" /\ (\A i \in 1..Len(expr) : expr[i] = " ")
             => result = Err("InvalidRpn", <<>>))

\* compute stopped at an operator that lacked operands, with tokens left over.
C6_StoppedEarly ==
    /\ pc = "done"
    /\ result.kind = "Err"
    /\ result.err = "InvalidRpn"
    /\ Len(output_queue) > 0
    /\ \E i \in 1..Len(tokens) : tokens[i].type = "Number"

\* The bracket depth after the first k characters of e
Depth(e, k) ==
    Cardinality({i \in 1..k : e[i] = "("}) - Cardinality({i \in 1..k : e[i] = ")"})

Unbalanced(e) == Depth(e, Len(e)) # 0 \/ \E k \in 1..Len(e) : Depth(e, k) < 0

\* C7: an expression with unbalanced brackets (unequal counts, or a prefix
\* with more ')' than '(') is rejected by the tokenizer and never converted.
C7_UnbalancedRejected ==
    (Unbalanced(expr) /\ pc # "start") => TokenizerFailed

\* The bracket depth after the first k tokens of ts
TokenDepth(ts, k) ==
    Cardinality({i \in 1..k : ts[i] = Operator("LeftBracket")})
        - Cardinality({i \in 1..k : ts[i] = Operator("RightBracket")})

MalformedNesting(ts) ==
    TokenDepth(ts, Len(ts)) # 0 \/ \E k \in 1..Len(ts) : TokenDepth(ts, k) < 0

\* C8: to_rpn completes on every token sequence; for malformed bracket
\* nesting the failure is reported by compute as Err(InvalidRpn).
C8_MalformedNestingIsInvalidRpn ==
    (~Tokenizing /\ pc = "done" /\ MalformedNesting(tokens))
        => (result.kind = "Err" /\ result.err = "InvalidRpn")

\* e without its character at position i
RemoveAt(e, i) == SubSeq(e, 1, i - 1) \o SubSeq(e, i + 1, Len(e))

\* Position i of e holds a space that separates two tokens: its neighbours
\* are not both digits (a space between digits separates two numbers).
SeparatesTokens(e, i) ==
    /\ e[i] = " "
    /\ ~(i > 1 /\ i < Len(e) /\ e[i - 1] \in Digits /\ e[i + 1] \in Digits)

SameOutcome(r1, r2) == r1.kind = r2.kind /\ r1.err = r2.err /\ r1.toks = r2.toks

\* C9: removing a space between two tokens changes neither tokenizer's
\* token sequence or error.
C9_WhitespaceInsignificant ==
    \A i \in 1..Len(expr) :
        (pc = "done" /\ SeparatesTokens(expr, i))
            => /\ Tokenizing
                    => SameOutcome(result, parse_expr(RemoveAt(expr, i), overflow_checks))
               /\ Estimating
                    => SameOutcome(parse_expression_to_token_list(expr),
                                   parse_expression_to_token_list(RemoveAt(expr, i)))

AllDigits(e) == Len(e) > 0 /\ \A i \in 1..Len(e) : e[i] \in Digits

\* e holds a maximal digit run whose value does not fit the integer type.
HasOverflowingRun(e) ==
    \E i \in 1..Len(e) : \E j \in i..Len(e) :
        /\ AllDigits(SubSeq(e, i, j))
        /\ (i = 1 \/ e[i - 1] \notin Digits)
        /\ (j = Len(e) \/ e[j + 1] \notin Digits)
        /\ ~ParseI64(SubSeq(e, i, j)).ok

\* C10: a digit run that does not fit the integer type makes the tokenizer
\* return an error (NumberParse from parse_expr, ParseInt from
\* parse_expression_to_token_list when the run is the whole input); no
\* Number token is emitted for it and the tokenizer does not abort.
C10_OverflowingRunIsParseError ==
    (HasOverflowingRun(expr) /\ pc # "start")
        => /\ TokenizerFailed
           /\ AllDigits(expr)
                 => result.err = (IF Tokenizing THEN "NumberParse" ELSE "ParseInt")

\* C11: whatever a line evaluates to, while no interrupt has arrived the
\* worker prints a result or an error message and goes back to reading.
C11_EveryOutcomeKeepsReading ==
    [][(worker = "estimate" /\ pc = "done" /\ ~sigint /\ ~sigint')
          => /\ worker' = "read_line"
             /\ stdout' \in {"Result of expression",
                             "Cannot estimate expression due to error"}]_vars

Level(o) == IF o \in {"Prod", "Div"} THEN "high" ELSE "low"

AtLeast(a, b) == Level(a) = "high" \/ Level(b) = "low"

\* Pop to the queue while the top is no LeftBracket and binds at least as
\* tightly as operator.
RECURSIVE PopWhileAtLeast(_, _, _)
PopWhileAtLeast(st, q, operator) ==
    IF Len(st) > 0 /\ st[1] # "LeftBracket" /\ AtLeast(st[1], operator)
    THEN PopWhileAtLeast(Tail(st), <<Operator(st[1])>> \o q, operator)
    ELSE [st |-> st, q |-> q]

\* to_rpn is about to read an arithmetic operator.
ReadsOperator ==
    /\ pc = "to_rpn"
    /\ pos <= Len(tokens)
    /\ tokens[pos].type = "Operator"
    /\ tokens[pos].op \in ArithOps

\* C13: when to_rpn reads an arithmetic operator, every operator on top of
\* the stack that is no LeftBracket and has a precedence greater than or equal
\* to the read one's is popped to the output before the read one is pushed.
C13_PopsEqualOrHigherPrecedence ==
    [][ReadsOperator
          => LET p == PopWhileAtLeast(operator_stack, output_queue, tokens[pos].op)
             IN /\ operator_stack' = <<tokens[pos].op>> \o p.st
                /\ output_queue' = p.q]_vars

IsNumber(t) == t.type = "Number"

IsArith(t) == t.type = "Operator" /\ t.op \in ArithOps

\* Opening brackets minus closing brackets among the first k tokens
OpenBrackets(toks, k) ==
    Cardinality({i \in 1..k : toks[i] = Operator("LeftBracket")})
        - Cardinality({i \in 1..k : toks[i] = Operator("RightBracket")})

\* An infix expression: operands (numbers or bracketed expressions) separated
\* by single arithmetic operators, with matched brackets.
WellFormedInfix(toks) ==
    /\ Len(toks) > 0
    /\ IsNumber(toks[1]) \/ toks[1] = Operator("LeftBracket")
    /\ IsNumber(toks[Len(toks)]) \/ toks[Len(toks)] = Operator("RightBracket")
    /\ \A i \in 1..(Len(toks) - 1) :
          IF IsNumber(toks[i]) \/ toks[i] = Operator("RightBracket")
          THEN IsArith(toks[i + 1]) \/ toks[i + 1] = Operator("RightBracket")
          ELSE IsNumber(toks[i + 1]) \/ toks[i + 1] = Operator("LeftBracket")
    /\ \A k \in 1..Len(toks) : OpenBrackets(toks, k) >= 0
    /\ OpenBrackets(toks, Len(toks)) = 0

\* Operands minus operators among the first k elements of a postfix sequence
Surplus(r, k) ==
    Cardinality({i \in 1..k : IsNumber(r[i])})
        - Cardinality({i \in 1..k : ~IsNumber(r[i])})

\* A postfix sequence: numbers and arithmetic operators only, every operator
\* finds two operands, and one value is left at the end.
ValidPostfix(r) ==
    /\ Len(r) > 0
    /\ \A i \in 1..Len(r) : IsNumber(r[i]) \/ IsArith(r[i])
    /\ \A k \in 1..Len(r) : Surplus(r, k) >= 1
    /\ Surplus(r, Len(r)) = 1

\* compute is about to apply an operator to two operands.
AppliesOperator ==
    /\ pc = "compute_loop"
    /\ Len(output_queue) > 0
    /\ output_queue[Len(output_queue)].type = "Operator"
    /\ Len(stack) >= 2

\* C14: for a well-formed infix token sequence the queue left by to_rpn, read
\* last element first, is a valid postfix sequence with the numbers in their
\* input order; compute applies an operator to the two values pushed last,
\* the earlier one on the left and the later one on the right.
C14_QueueIsPostfixInInputOrder ==
    /\ []((pc = "compute" /\ WellFormedInfix(tokens))
            => /\ ValidPostfix(Reverse(output_queue))
               /\ SelectSeq(Reverse(output_queue), IsNumber)
                     = SelectSeq(tokens, IsNumber))
    /\ [][AppliesOperator
            => LET left == stack[Len(stack) - 1]
                   right == stack[Len(stack)]
                   e == execute(output_queue[Len(output_queue)].op, left, right,
                                overflow_checks)
               IN \/ e.panic /\ pc' = "done"
                  \/ /\ ~e.panic
                     /\ stack' = Append(SubSeq(stack, 1, Len(stack) - 2), e.val)]_vars

\* compute is about to subtract or divide two different operands of a
\* well-formed expression with brackets.
C14_AppliesOrderedOperands ==
    /\ AppliesOperator
    /\ WellFormedInfix(tokens)
    /\ \E i \in 1..Len(tokens) : tokens[i] = Operator("LeftBracket")
    /\ output_queue[Len(output_queue)].op \in {"Sub", "Div"}
    /\ stack[Len(stack)] # stack[Len(stack) - 1]

\* compute has returned a number.
ComputeReturnedOk ==
    /\ call \in {"estimate_expression", "to_rpn"}
    /\ pc = "done"
    /\ result.kind = "Ok"

\* C15: when compute returns Ok(v) the whole queue has been consumed and the
\* operand stack holds exactly one value, v; a sequence that leaves two or
\* more values on the stack yields no number.
C15_OkMeansSingleValue ==
    ComputeReturnedOk => (output_queue = <<>> /\ stack = <<result.val>>)

UnreachableMessages ==
    {"unreachable: Hit brackets in operation execution",
     "unreachable: Hit brackets in RPN stringify"}

\* C16: for an input of estimate_expression no bracket is ever in the output
\* queue, and neither unreachable!() branch is executed.
C16_NoBracketReachesTheQueue ==
    Estimating
        => /\ \A i \in 1..Len(output_queue) : ~IsBracket(output_queue[i])
           /\ ~(result.kind = "Panic" /\ result.err \in UnreachableMessages)

\* estimate_expression has converted an input with brackets and compute has
\* built rpn_str from the queue.
C16_BracketsConsumed ==
    /\ Estimating
    /\ pc = "compute_loop"
    /\ \E i \in 1..Len(tokens) : tokens[i] = Operator("LeftBracket")
    /\ \E i \in 1..Len(tokens) : tokens[i] = Operator("RightBracket")
    /\ Len(output_queue) > 0

====
